---- MODULE Spec2Model ----
(***************************************************************************)
(* A model of toons (src/src/main.rs): the OAuth callback listener         *)
(* (auth_cb), the auth loop (do_auth) with the credential file             *)
(* (read_toons / write_toons), the skill-queue aggregation                 *)
(* (calculate_queued_skill) and the stats fan-out (do_stats_single,        *)
(* do_stats).                                                              *)
(*                                                                         *)
(* Text is modelled as sequences of one-character strings, so that the     *)
(* prefix test, the split at the first blank and the query-string decoding *)
(* of the listener are computed the way the code computes them.            *)
(***************************************************************************)
EXTENDS Integers, Sequences, FiniteSets, TLC

\* Option<T>: Nothing or Some(v); None is the absent value of a string field
None == "None"

Nothing == <<>>

Some(v) == <<v>>

(***************************************************************************)
(* Bounds of the model.                                                    *)
(***************************************************************************)
\* longest authorization code the peer puts into the callback line
MaxCodeLen == 3
\* auth iterations one invocation of do_auth is followed through
MaxIter == 2
\* stored characters the stats run fans out over
MaxToons == 2
\* entries of the skill queue of the character whose aggregation is followed
MaxQueue == 2

(***************************************************************************)
(* Text helpers (str::starts_with, strip_prefix, split_once).              *)
(***************************************************************************)
StartsWith(s, p) == Len(s) >= Len(p) /\ SubSeq(s, 1, Len(p)) = p

StripPrefix(s, p) == SubSeq(s, Len(p) + 1, Len(s))

\* index of the first occurrence of the character ch in s, 0 if there is none
IndexOf(s, ch) ==
    LET hits == {i \in 1..Len(s) : s[i] = ch}
    IN  IF hits = {} THEN 0 ELSE CHOOSE i \in hits : \A j \in hits : i <= j

\* str::split_once: Nothing, or <<before, after>> around the first ch
SplitOnce(s, ch) ==
    LET i == IndexOf(s, ch)
    IN  IF i = 0 THEN Nothing ELSE <<SubSeq(s, 1, i - 1), SubSeq(s, i + 1, Len(s))>>

RECURSIVE SplitAll(_, _)
\* the pieces of s between the occurrences of ch
SplitAll(s, ch) ==
    LET i == IndexOf(s, ch)
    IN  IF i = 0
        THEN <<s>>
        ELSE <<SubSeq(s, 1, i - 1)>> \o SplitAll(SubSeq(s, i + 1, Len(s)), ch)

\* all sequences over alphabet of length at most n
StringsUpTo(alphabet, n) == UNION {[1..k -> alphabet] : k \in 0..n}

(***************************************************************************)
(* Query-string decoding, as serde_qs::from_str does it for                *)
(* EsiCallbackParams (main.rs:106): pairs are separated by '&', key and    *)
(* value by the first '=', '+' stands for a blank and %XY for the byte     *)
(* with hexadecimal code XY; a '%' not followed by two hex digits is kept. *)
(***************************************************************************)
HexDigits == <<"0", "1", "2", "3", "4", "5", "6", "7", "8", "9",
               "A", "B", "C", "D", "E", "F">>

LowerHex == <<"0", "1", "2", "3", "4", "5", "6", "7", "8", "9",
              "a", "b", "c", "d", "e", "f">>

IsHex(c) == \E i \in 1..16 : HexDigits[i] = c \/ LowerHex[i] = c

HexVal(c) == (CHOOSE i \in 1..16 : HexDigits[i] = c \/ LowerHex[i] = c) - 1

\* the printable ASCII characters, code 32 first (the double quote, the
\* backslash and the backquote are written as named placeholders)
AsciiPrintable ==
    <<
       " ", "!", "<dquote>", "#", "$", "%", "&", "'", "(", ")", "*", "+", ",", "-",
       ".", "/", "0", "1", "2", "3", "4", "5", "6", "7", "8", "9", ":", ";",
       "<", "=", ">", "?", "@", "A", "B", "C", "D", "E", "F", "G", "H", "I",
       "J", "K", "L", "M", "N", "O", "P", "Q", "R", "S", "T", "U", "V", "W",
       "X", "Y", "Z", "[", "<bslash>", "]", "^", "_", "<bquote>", "a", "b", "c", "d", "e",
       "f", "g", "h", "i", "j", "k", "l", "m", "n", "o", "p", "q", "r", "s",
       "t", "u", "v", "w", "x", "y", "z", "{", "|", "}", "~"
    >>

\* the character of byte b; a control character is one placeholder,
\* a lone byte above 127 is not UTF-8 (the decoder rejects the string)
Chr(b) ==
    IF b >= 32 /\ b <= 126 THEN AsciiPrintable[b - 31]
    ELSE IF b < 128 THEN "<ctl>" ELSE "<bad-utf8>"

ReplacePlus(s) == [i \in 1..Len(s) |-> IF s[i] = "+" THEN " " ELSE s[i]]

RECURSIVE PercentDecode(_)
PercentDecode(s) ==
    IF s = <<>> THEN <<>>
    ELSE IF s[1] = "%" /\ Len(s) >= 3 /\ IsHex(s[2]) /\ IsHex(s[3])
         THEN <<Chr(16 * HexVal(s[2]) + HexVal(s[3]))>>
              \o PercentDecode(SubSeq(s, 4, Len(s)))
         ELSE <<s[1]>> \o PercentDecode(Tail(s))

\* serde_qs: '+' is replaced first, then the percent escapes are decoded
QsDecode(s) == PercentDecode(ReplacePlus(s))

\* the decoded <<key, value>> of one piece of the query
QsPair(piece) ==
    LET kv == SplitOnce(piece, "=")
    IN  IF kv = Nothing
        THEN <<QsDecode(piece), <<>>>>
        ELSE <<QsDecode(kv[1]), QsDecode(kv[2])>>

QsPairs(query) ==
    LET pieces == SplitAll(query, "&")
    IN  {QsPair(pieces[i]) : i \in {j \in 1..Len(pieces) : pieces[j] # <<>>}}

KeyCode == <<"c", "o", "d", "e">>

KeyState == <<"s", "t", "a", "t", "e">>

\* serde_qs::from_str::<EsiCallbackParams>: Some(params), or Nothing for an
\* error: both fields are required, a field given twice or a value that is not
\* UTF-8 is an error; other keys are ignored
QsFromStr(query) ==
    LET pairs  == QsPairs(query)
        codes  == {p[2] : p \in {r \in pairs : r[1] = KeyCode}}
        states == {p[2] : p \in {r \in pairs : r[1] = KeyState}}
        ok(v)  == \A i \in 1..Len(v) : v[i] # "<bad-utf8>"
    IN  IF Cardinality(codes) = 1 /\ Cardinality(states) = 1
           /\ (\A v \in codes \cup states : ok(v))
        THEN Some([code |-> CHOOSE v \in codes : TRUE,
                   state |-> CHOOSE v \in states : TRUE])
        ELSE Nothing

(***************************************************************************)
(* The lines a peer can send to the listener.                              *)
(***************************************************************************)
CallbackPrefix ==
    <<"G", "E", "T", " ", "/", "e", "s", "i", "/",
      "c", "a", "l", "l", "b", "a", "c", "k", "?">>

CRLF == <<"\r", "\n">>

HttpVersion == <<" ", "H", "T", "T", "P", "/", "1", ".", "1">>

\* GET /esi/callback?code=C&state=S HTTP/1.1\r\n
CallbackLine(C, S) ==
    CallbackPrefix \o <<"c", "o", "d", "e", "=">> \o C
    \o <<"&", "s", "t", "a", "t", "e", "=">> \o S \o HttpVersion \o CRLF

BlankLine == CRLF

\* a header line: "Host: l\r\n"
HostLine == <<"H", "o", "s", "t", ":", " ", "l">> \o CRLF

\* a request for another path: "GET / HTTP/1.1\r\n"
RootGetLine == <<"G", "E", "T", " ", "/">> \o HttpVersion \o CRLF

\* an empty line ended by a bare line feed
BareLfLine == <<"\n">>

\* a callback line with no blank after the query: "GET /esi/callback?code=Z\r\n"
NoBlankCallbackLine == CallbackPrefix \o <<"c", "o", "d", "e", "=", "Z">> \o CRLF

\* a callback line without state: "GET /esi/callback?code=Z HTTP/1.1\r\n"
NoStateCallbackLine ==
    CallbackPrefix \o <<"c", "o", "d", "e", "=", "Z">> \o HttpVersion \o CRLF

\* the characters authorization codes are made of in the model: a digit (which
\* is also a hex digit) and the two characters URL decoding rewrites
CodeAlphabet == {"4", "+", "%"}

Codes == StringsUpTo(CodeAlphabet, MaxCodeLen)

StateVals == {<<"X", "Y", "Z">>, <<"x", "+", "y">>}

OtherLines ==
    {BlankLine, HostLine, RootGetLine, BareLfLine, NoBlankCallbackLine, NoStateCallbackLine}

(***************************************************************************)
(* The credential store: CharacterData records, the HashMap keyed by name  *)
(* and the JSON file.                                                      *)
(***************************************************************************)
Jan == <<"J", "a", "n">>

January == <<"J", "a", "n", "u", "a", "r", "y">>

Names == {Jan, January}

\* what the identity verification endpoint can answer (EsiVerifyResponse)
Characters ==
    {[character_name |-> Jan, character_id |-> 91, scopes |-> "skills"],
     [character_name |-> January, character_id |-> 92, scopes |-> "skills queue"]}

\* refresh tokens the token endpoint hands out, and one stored by an earlier run
Tokens == {"r1", "r2"}

OldToken == "r0"

CharacterData(name, id, refresh_token, scopes) ==
    [name |-> name, id |-> id, refresh_token |-> refresh_token, scopes |-> scopes]

EmptyMap == [k \in {} |-> None]

\* mutant of MapInsert: the map is replaced by the one inserted entry
MapInsertAlone(m, k, v) == [x \in {k} |-> v]

\* HashMap::insert
MapInsert(m, k, v) == [x \in DOMAIN m \cup {k} |-> IF x = k THEN v ELSE m[x]]

\* the file is absent, holds a JSON object (its members, as key/value pairs),
\* or was created (truncated) and not completely written
Absent == [state |-> "absent", members |-> {}]

Truncated == [state |-> "truncated", members |-> {}]

\* serde_json::to_writer_pretty of the map
ToJson(m) == [state |-> "json", members |-> {<<k, m[k]>> : k \in DOMAIN m}]

\* serde_json::from_reader of the JSON object
FromJson(f) ==
    [k \in {p[1] : p \in f.members} |-> (CHOOSE p \in f.members : p[1] = k)[2]]

\* read_toons: an absent file is an empty map
ReadToons(f) == IF f.state = "absent" THEN EmptyMap ELSE FromJson(f)

\* the files an invocation can find at its start
InitialFiles ==
    {Absent,
     ToJson(MapInsert(EmptyMap, Jan, CharacterData(Jan, 91, OldToken, "skills")))}

VARIABLES
    pc,              \* where do_auth / auth_cb stands
    iter,            \* completed iterations of the auth loop
    toons,           \* do_auth: the in-memory map
    file,            \* the content of toons.json
    lastGood,        \* history: the file as the last successful iteration left it
    failedAt,        \* history: the step a panic came from
    verified,        \* history: the verify answer of the iteration
    accepted,        \* auth_cb: connections accepted by this listener
    acceptErrLogged, \* auth_cb: an accept error was logged
    readErrLogged,   \* auth_cb: a read error was logged
    peerClosed,      \* the peer has closed its side of the connection
    eofReads,        \* history: reads that returned Ok(0), counted modulo 2
    line,            \* auth_cb: the line buffer
    params,          \* auth_cb: Option<EsiCallbackParams>
    req,             \* history: code and state of the last callback line delivered
    sawPrefix,       \* history: a line beginning with the callback prefix was read
    responses,       \* auth_cb: calls of stream.write on the accepted connection
    respOk,          \* the write of the response succeeded
    cbResult,        \* what auth_cb returned
    access_token,    \* esi.access_token
    refresh_token    \* esi.refresh_token

listenerVars ==
    <<accepted, acceptErrLogged, readErrLogged, peerClosed, eofReads, line, params, req,
      sawPrefix, responses, respOk, cbResult>>

storeVars == <<toons, file, lastGood>>

esiVars == <<access_token, refresh_token>>

authVars == <<pc, iter, failedAt, verified, storeVars, listenerVars, esiVars>>

\* the state of the stats command
VARIABLES
    spc,          \* where do_stats stands: "join", "done", "panicked"
    clock,        \* the Unix time Utc::now() shows
    single,       \* the characters of the launched tasks, in launch order
    tpc,          \* per task: where do_stats_single stands
    authed,       \* per task: the client holds an access token
    specLoaded,   \* per task: the client holds the API spec
    stat,         \* per task: its CropStat
    queue,        \* per task: the queue entries not yet looped over
    running,      \* the task inside its aggregation loop, 0 for none
    queuePoints,  \* history, per task: points added by queue entries
    taken,        \* history, per task: the entries looped over, each with its now
    lastStep,     \* history: the last entry looped over, the stat before and after
    finished,     \* history: the tasks in the order they returned
    crop_stats,   \* do_stats: the final report
    available_extracts \* do_stats: the extraction count

statsVars ==
    <<spc, clock, single, tpc, authed, specLoaded, stat, queue, running,
      queuePoints, taken, lastStep, finished, crop_stats, available_extracts>>

\* the state of the show command
VARIABLES
    show_pc,      \* where do_show stands: "read", "find", "printed", "panicked"
    show_file,    \* the file do_show finds
    show_name,    \* the name asked for
    show_toons,   \* do_show: the map read
    show_found    \* what find_toon returned

showVars == <<show_pc, show_file, show_name, show_toons, show_found>>

\* the state of two invocations of the auth command that run at the same time
\* on one machine: they share the file and the callback port
VARIABLES
    inv_pc,       \* per invocation: "start", "bind", "listen", "store", "panicked"
    inv_toons,    \* per invocation: do_auth's toons
    inv_iter,     \* per invocation: iterations completed
    inv_read,     \* history: per invocation, the names read_toons found
    inv_wrote,    \* history: per invocation, the names it persisted
    shared_file,  \* toons.json
    port,         \* the invocation whose listener holds 127.0.0.1:5000, or 0
    last_writer   \* history: the invocation whose write_toons succeeded last, or 0

overlapVars ==
    <<inv_pc, inv_toons, inv_iter, inv_read, inv_wrote, shared_file, port, last_writer>>

vars == <<authVars, statsVars, showVars, overlapVars>>

\* what a step of one command leaves alone
exceptAuth == <<statsVars, showVars, overlapVars>>

exceptStats == <<authVars, showVars, overlapVars>>

exceptShow == <<authVars, statsVars, overlapVars>>

exceptOverlap == <<authVars, statsVars, showVars>>

\* the locals of auth_cb before it runs
ListenerReset ==
    /\ accepted' = 0
    /\ acceptErrLogged' = FALSE
    /\ readErrLogged' = FALSE
    /\ peerClosed' = FALSE
    /\ eofReads' = 0
    /\ line' = <<>>
    /\ params' = Nothing
    /\ req' = Nothing
    /\ sawPrefix' = FALSE
    /\ responses' = 0
    /\ respOk' = FALSE
    /\ cbResult' = Nothing

\* do_auth up to its loop: read_toons
AuthInit ==
    /\ pc = "bind"
    /\ iter = 0
    /\ file \in InitialFiles
    /\ toons = ReadToons(file)
    /\ lastGood = file
    /\ failedAt = None
    /\ verified = Nothing
    /\ accepted = 0
    /\ acceptErrLogged = FALSE
    /\ readErrLogged = FALSE
    /\ peerClosed = FALSE
    /\ eofReads = 0
    /\ line = <<>>
    /\ params = Nothing
    /\ req = Nothing
    /\ sawPrefix = FALSE
    /\ responses = 0
    /\ respOk = FALSE
    /\ cbResult = Nothing
    /\ access_token = None
    /\ refresh_token = None

Panic(step) ==
    /\ pc' = "panicked"
    /\ failedAt' = step

\* one iteration starts: create_esi (a client without tokens), then auth_cb
\* binds the port (unwrap)
Bind ==
    /\ pc = "bind"
    /\ iter < MaxIter
    /\ ListenerReset
    /\ access_token' = None
    /\ refresh_token' = None
    /\ verified' = Nothing
    /\ \/ pc' = "accept" /\ UNCHANGED failedAt
       \/ Panic("bind")
    /\ UNCHANGED <<iter, storeVars>>
    /\ UNCHANGED exceptAuth

\* listener.incoming() yields Err: logged, the loop goes on
AcceptErr ==
    /\ pc = "accept"
    /\ acceptErrLogged' = TRUE
    /\ UNCHANGED <<pc, iter, failedAt, verified, storeVars, accepted, readErrLogged, peerClosed, eofReads,
                   line, params, req, sawPrefix, responses, respOk, cbResult, esiVars>>
    /\ UNCHANGED exceptAuth

\* listener.incoming() yields a stream; try_clone().unwrap() can panic
AcceptOk ==
    /\ pc = "accept"
    /\ accepted' = accepted + 1
    /\ line' = <<>>
    /\ \/ pc' = "read" /\ UNCHANGED failedAt
       \/ Panic("callback")
    /\ UNCHANGED <<iter, verified, storeVars, acceptErrLogged, readErrLogged, peerClosed, eofReads,
                   params, req, sawPrefix, responses, respOk, cbResult, esiVars>>
    /\ UNCHANGED exceptAuth

\* mutant of CallbackQuery: the query is not cut at the first blank
CallbackQueryNoSplit(buf) == Some(StripPrefix(buf, CallbackPrefix))

\* the query of a line that begins with the prefix: strip_prefix, then
\* split_once(' '); Nothing when there is no blank to split at
CallbackQuery(buf) ==
    LET parts == SplitOnce(StripPrefix(buf, CallbackPrefix), " ")
    IN  IF parts = Nothing THEN Nothing ELSE Some(parts[1])

\* the parse of a callback line: Nothing when one of its unwraps panics
ParseCallback(buf) ==
    LET query == CallbackQuery(buf)
    IN  IF query = Nothing THEN Nothing ELSE QsFromStr(query[1])

\* mutant of EndsLoop: a callback line ends the loop too
EndsLoopOnCallback(buf) == buf = CRLF \/ StartsWith(buf, CallbackPrefix)

\* the loop ends at a line that is exactly "\r\n"
EndsLoop(buf) == buf = CRLF

\* the body of the read loop for a buffer read_line returned Ok on
ProcessLine(buf) ==
    /\ IF StartsWith(buf, CallbackPrefix)
       THEN LET parsed == ParseCallback(buf)
            IN  IF parsed = Nothing
                THEN /\ Panic("callback")
                     /\ UNCHANGED params
                ELSE /\ params' = parsed
                     /\ pc' = IF EndsLoop(buf) THEN "respond" ELSE "read"
                     /\ UNCHANGED failedAt
       ELSE /\ UNCHANGED <<params, failedAt>>
            /\ pc' = IF EndsLoop(buf) THEN "respond" ELSE "read"
    /\ line' = IF EndsLoop(buf) THEN buf ELSE <<>>
    /\ sawPrefix' = (sawPrefix \/ StartsWith(buf, CallbackPrefix))

\* read_line returns Ok with a callback line of the peer, which sends its
\* request line once
ReadCallbackLine ==
    /\ pc = "read"
    /\ ~peerClosed
    /\ ~sawPrefix
    /\ \E C \in Codes, S \in StateVals :
          /\ ProcessLine(line \o CallbackLine(C, S))
          /\ req' = Some([code |-> C, state |-> S])
    /\ UNCHANGED <<iter, verified, storeVars, accepted, acceptErrLogged, readErrLogged, peerClosed, eofReads,
                   responses, respOk, cbResult, esiVars>>
    /\ UNCHANGED exceptAuth

\* read_line returns Ok with another line of the peer
ReadOtherLine ==
    /\ pc = "read"
    /\ ~peerClosed
    /\ \E l \in OtherLines :
          /\ ProcessLine(line \o l)
          /\ req' = IF StartsWith(line \o l, CallbackPrefix) THEN Nothing ELSE req
    /\ UNCHANGED <<iter, verified, storeVars, accepted, acceptErrLogged, readErrLogged, peerClosed, eofReads,
                   responses, respOk, cbResult, esiVars>>
    /\ UNCHANGED exceptAuth

\* the peer closes its side
PeerClose ==
    /\ pc = "read"
    /\ ~peerClosed
    /\ peerClosed' = TRUE
    /\ UNCHANGED eofReads
    /\ UNCHANGED <<pc, iter, failedAt, verified, storeVars, accepted, acceptErrLogged,
                   readErrLogged, line, params, req, sawPrefix, responses, respOk,
                   cbResult, esiVars>>
    /\ UNCHANGED exceptAuth

\* read_line returns Ok(0) at the end of the stream, at once: nothing is
\* appended
ReadEof ==
    /\ pc = "read"
    /\ peerClosed
    /\ eofReads' = (eofReads + 1) % 2
    /\ ProcessLine(line)
    /\ UNCHANGED <<iter, verified, storeVars, accepted, acceptErrLogged, readErrLogged, peerClosed,
                   req, responses, respOk, cbResult, esiVars>>
    /\ UNCHANGED exceptAuth

\* read_line returns Err: logged, the buffer is kept, the loop goes on
ReadErr ==
    /\ pc = "read"
    /\ readErrLogged' = TRUE
    /\ UNCHANGED <<pc, iter, failedAt, verified, storeVars, accepted, acceptErrLogged, peerClosed, eofReads,
                   line, params, req, sawPrefix, responses, respOk, cbResult, esiVars>>
    /\ UNCHANGED exceptAuth

\* mutant of Respond: the accept loop is not left after the response
RespondNoBreak ==
    /\ pc = "respond"
    /\ responses' = responses + 1
    /\ respOk' \in BOOLEAN
    /\ cbResult' = params
    /\ pc' = "accept"
    /\ UNCHANGED <<iter, failedAt, verified, storeVars, accepted, acceptErrLogged,
                   readErrLogged, peerClosed, eofReads, line, params, req, sawPrefix, esiVars>>
    /\ UNCHANGED exceptAuth

\* after the read loop: one stream.write of the response (an error is logged),
\* break out of the accept loop, the listener is dropped, params is returned
Respond ==
    /\ pc = "respond"
    /\ responses' = responses + 1
    /\ respOk' \in BOOLEAN
    /\ cbResult' = params
    /\ pc' = "returned"
    /\ UNCHANGED <<iter, failedAt, verified, storeVars, accepted, acceptErrLogged,
                   readErrLogged, peerClosed, eofReads, line, params, req, sawPrefix, esiVars>>
    /\ UNCHANGED exceptAuth

\* do_auth: auth_cb().expect("Auth callback failed"); with a result the code
\* goes to the token endpoint and the locals of auth_cb are gone
ExpectCallback ==
    /\ pc = "returned"
    /\ IF cbResult = Nothing
       THEN Panic("callback") /\ UNCHANGED listenerVars
       ELSE pc' = "exchange" /\ ListenerReset /\ UNCHANGED failedAt
    /\ UNCHANGED <<iter, verified, storeVars, esiVars>>
    /\ UNCHANGED exceptAuth

\* let _ = esi.authenticate(&params.code, None).await: on success the client
\* holds the access token and the refresh token of the answer (which may carry
\* none); on failure the error is dropped and the client holds no token
Authenticate ==
    /\ pc = "exchange"
    /\ \/ /\ access_token' = "access"
          /\ refresh_token' \in Tokens \cup {None}
       \/ UNCHANGED esiVars
    /\ pc' = "verify"
    /\ UNCHANGED <<iter, failedAt, verified, storeVars, listenerVars>>
    /\ UNCHANGED exceptAuth

\* mutant of WriteToons: the iteration ends without rewriting the file
WriteToonsDeferred(m) ==
    /\ iter' = iter + 1
    /\ pc' = "bind"
    /\ UNCHANGED <<file, lastGood, failedAt>>

\* write_toons: File::create truncates the file, then the map is serialized and
\* flushed; each of the three can fail (expect)
WriteToons(m) ==
    \/ /\ file' = ToJson(m)
       /\ lastGood' = ToJson(m)
       /\ iter' = iter + 1
       /\ pc' = "bind"
       /\ UNCHANGED failedAt
    \/ /\ Panic("persist")
       /\ UNCHANGED <<file, lastGood, iter>>
    \/ /\ Panic("persist")
       /\ file' = Truncated
       /\ UNCHANGED <<lastGood, iter>>

\* toons.insert of the verified character with the client's refresh token
InsertVerified(m, verify, token) ==
    MapInsert(m, verify.character_name,
              CharacterData(verify.character_name, verify.character_id,
                            token, verify.scopes))

\* mutant of VerifyAndStore: the record is inserted and written before the
\* answer of the verification has been checked
VerifyAndStoreEager ==
    /\ pc = "verify"
    /\ IF access_token = None
       THEN Panic("exchange") /\ UNCHANGED <<iter, verified, storeVars>>
       ELSE \E verify \in Characters :
               /\ verified' = Some(verify)
               /\ IF refresh_token = None
                  THEN Panic("exchange") /\ UNCHANGED <<iter, storeVars>>
                  ELSE /\ toons' = InsertVerified(toons, verify, refresh_token)
                       /\ \/ WriteToons(toons')
                          \/ /\ Panic("verify")
                             /\ file' = ToJson(toons')
                             /\ UNCHANGED <<iter, lastGood>>
    /\ UNCHANGED <<listenerVars, esiVars>>
    /\ UNCHANGED exceptAuth

\* the rest of the iteration: the verify request with the access token, the
\* parse of its answer, toons.insert and write_toons
VerifyAndStore ==
    /\ pc = "verify"
    /\ IF access_token = None
       THEN Panic("exchange") /\ UNCHANGED <<iter, verified, storeVars>>
       ELSE \/ Panic("verify") /\ UNCHANGED <<iter, verified, storeVars>>
            \/ \E verify \in Characters :
                  /\ verified' = Some(verify)
                  /\ IF refresh_token = None
                     THEN Panic("exchange") /\ UNCHANGED <<iter, storeVars>>
                     ELSE /\ toons' = InsertVerified(toons, verify, refresh_token)
                          /\ WriteToons(toons')
    /\ UNCHANGED <<listenerVars, esiVars>>
    /\ UNCHANGED exceptAuth

AuthNext ==
    \/ Bind
    \/ AcceptErr
    \/ AcceptOk
    \/ ReadCallbackLine
    \/ ReadOtherLine
    \/ PeerClose
    \/ ReadEof
    \/ ReadErr
    \/ Respond
    \/ ExpectCallback
    \/ Authenticate
    \/ VerifyAndStore

(***************************************************************************)
(* f64 arithmetic of the in-training branch of calculate_queued_skill:     *)
(* pct = completed / total and sp = train_points * pct are IEEE-754        *)
(* double operations (53 significant bits, round to nearest, ties to       *)
(* even), and sp as i64 truncates toward zero.  Significands are written   *)
(* as sequences of bits, most significant first.  The operands are         *)
(* integers below 2^30 in magnitude, which f64 holds exactly.              *)
(***************************************************************************)
F64Precision == 53

Front(bits) == SubSeq(bits, 1, Len(bits) - 1)

\* the binary digits of n >= 0, none for 0
ToBits(n) ==
    LET len == CHOOSE l \in 0..31 : n < 2 ^ l /\ (l = 0 \/ n >= 2 ^ (l - 1))
    IN  [i \in 1..len |-> (n \div 2 ^ (len - i)) % 2]

RECURSIVE ToInt(_)
ToInt(bits) ==
    IF bits = <<>> THEN 0
    ELSE IF Len(bits) = 1 THEN bits[1]
    ELSE LET m == Len(bits) \div 2
         IN  ToInt(SubSeq(bits, 1, m)) * 2 ^ (Len(bits) - m)
             + ToInt(SubSeq(bits, m + 1, Len(bits)))

\* bits + 1
IncBits(bits) ==
    LET zeros == {i \in 1..Len(bits) : bits[i] = 0}
        last  == IF zeros = {} THEN 0 ELSE CHOOSE i \in zeros : \A j \in zeros : j <= i
    IN  [i \in 1..(IF last = 0 THEN Len(bits) + 1 ELSE Len(bits)) |->
            IF last = 0 THEN (IF i = 1 THEN 1 ELSE 0)
            ELSE IF i < last THEN bits[i] ELSE IF i = last THEN 1 ELSE 0]

\* bits without its last drop digits, rounded to nearest, ties to even;
\* sticky tells that nonzero digits follow bits
RoundBits(bits, drop, sticky) ==
    IF drop = 0 THEN bits
    ELSE LET keep == SubSeq(bits, 1, Len(bits) - drop)
             half == bits[Len(bits) - drop + 1]
             rest == sticky \/ \E i \in (Len(bits) - drop + 2)..Len(bits) : bits[i] = 1
             odd  == keep # <<>> /\ keep[Len(keep)] = 1
         IN  IF half = 1 /\ (rest \/ odd) THEN IncBits(keep) ELSE keep

RECURSIVE Remainders(_, _, _)
\* long division of r by t, for 0 <= r < t: what is left after each of the
\* first n binary digits behind the point
Remainders(r, t, n) ==
    IF n = 0 THEN <<>>
    ELSE IF n = 1 THEN <<(2 * r) % t>>
    ELSE LET m     == n \div 2
             first == Remainders(r, t, m)
         IN  first \o Remainders(first[m], t, n - m)

\* c / t as an f64, for integers c > 0 and t > 0: the value is
\* ToInt(bits) / 2^exp, with at most F64Precision + 1 digits in bits
F64Div(c, t) ==
    LET whole  == ToBits(c \div t)
        r      == c % t
        all    == 31 + F64Precision + 1
        rem    == Remainders(r, t, all)
        frac   == [k \in 1..all |->
                      IF 2 * (IF k = 1 THEN r ELSE rem[k - 1]) >= t THEN 1 ELSE 0]
        ones   == {k \in 1..all : frac[k] = 1}
        lead   == IF whole = <<>> /\ ones # {}
                  THEN (CHOOSE k \in ones : \A j \in ones : k <= j) - 1
                  ELSE 0
        n      == lead + F64Precision + 1 - Len(whole)
        digits == whole \o SubSeq(frac, lead + 1, n)
    IN  [bits |-> RoundBits(digits, 1, rem[n] # 0), exp |-> n - 1]

RECURSIVE MulAdd(_, _, _)
\* the binary digits of bits * p + carry, worked out eight digits of bits at
\* a time from the low end; 0 <= p < 2^22
MulAdd(bits, p, carry) ==
    IF bits = <<>> THEN ToBits(carry)
    ELSE LET k   == IF Len(bits) < 8 THEN Len(bits) ELSE 8
             v   == ToInt(SubSeq(bits, Len(bits) - k + 1, Len(bits))) * p + carry
             low == [i \in 1..k |-> ((v % 2 ^ k) \div 2 ^ (k - i)) % 2]
         IN  MulAdd(SubSeq(bits, 1, Len(bits) - k), p, v \div 2 ^ k) \o low

\* (p * x) as i64 for an integer p >= 0 and the f64 x: the product is rounded
\* to F64Precision digits, then the digits behind the point are cut off
F64MulTrunc(p, x) ==
    LET prod    == MulAdd(x.bits, p, 0)
        drop    == IF Len(prod) > F64Precision THEN Len(prod) - F64Precision ELSE 0
        rounded == RoundBits(prod, drop, FALSE)
        behind  == x.exp - drop
    IN  IF behind >= Len(rounded) THEN 0
        ELSE ToInt(SubSeq(rounded, 1, Len(rounded) - behind))

\* (train_points * (completed / total)) as i64, for completed > 0, total > 0
TrainedSp(train_points, completed, total) ==
    IF train_points >= 0
    THEN F64MulTrunc(train_points, F64Div(completed, total))
    ELSE 0 - F64MulTrunc(0 - train_points, F64Div(completed, total))


(***************************************************************************)
(* The skill-queue aggregation: calculate_queued_skill.                    *)
(***************************************************************************)
CROP_SKILLS == {3412, 3551, 13278, 21718, 25739, 25810, 25811}

\* a date string of the API: RFC 3339 text for the Unix time ts, or text that
\* DateTime::parse_from_rfc3339 rejects
Date(ts) == [valid |-> TRUE, ts |-> ts]

BadDate == [valid |-> FALSE, ts |-> 0]

\* the fields of QueuedSkill the code reads, and level_start_sp
QueuedSkill(skill_id, start_date, finish_date, training_start_sp, level_end_sp) ==
    [skill_id |-> skill_id, start_date |-> start_date, finish_date |-> finish_date,
     training_start_sp |-> training_start_sp, level_start_sp |-> 0,
     level_end_sp |-> level_end_sp]

AggResult(training, is_crop, points) ==
    [panicked |-> FALSE, training |-> training, is_crop |-> is_crop, points |-> points]

AggPanic == [panicked |-> TRUE, training |-> FALSE, is_crop |-> FALSE, points |-> 0]

\* mutant of CalculateQueuedSkill: the points of a level are counted from
\* level_start_sp instead of training_start_sp
CalculateFromLevelStart(skill, now) ==
    IF skill.skill_id \notin CROP_SKILLS THEN AggResult(FALSE, FALSE, 0)
    ELSE IF ~skill.start_date.valid \/ ~skill.finish_date.valid THEN AggPanic
    ELSE LET skill_start  == skill.start_date.ts
             skill_finish == skill.finish_date.ts
             train_points == skill.level_end_sp - skill.level_start_sp
         IN  IF skill_start < now
             THEN IF now > skill_finish
                  THEN AggResult(FALSE, FALSE, train_points)
                  ELSE AggResult(TRUE, FALSE,
                                 TrainedSp(train_points, now - skill_start,
                                           skill_finish - skill_start))
             ELSE AggResult(FALSE, TRUE, 0)

\* mutant of CalculateQueuedSkill: an entry counts as finished from the very
\* second of its finish_date
CalculateFinishInclusive(skill, now) ==
    IF skill.skill_id \notin CROP_SKILLS THEN AggResult(FALSE, FALSE, 0)
    ELSE IF ~skill.start_date.valid \/ ~skill.finish_date.valid THEN AggPanic
    ELSE LET skill_start  == skill.start_date.ts
             skill_finish == skill.finish_date.ts
             train_points == skill.level_end_sp - skill.training_start_sp
         IN  IF skill_start < now
             THEN IF now >= skill_finish
                  THEN AggResult(FALSE, FALSE, train_points)
                  ELSE AggResult(TRUE, FALSE,
                                 TrainedSp(train_points, now - skill_start,
                                           skill_finish - skill_start))
             ELSE AggResult(FALSE, TRUE, 0)

\* mutant of CalculateQueuedSkill: an entry that has not started yet but ends
\* after its start is treated as in training
CalculateEarlyAsTraining(skill, now) ==
    IF skill.skill_id \notin CROP_SKILLS THEN AggResult(FALSE, FALSE, 0)
    ELSE IF ~skill.start_date.valid \/ ~skill.finish_date.valid THEN AggPanic
    ELSE LET skill_start  == skill.start_date.ts
             skill_finish == skill.finish_date.ts
             train_points == skill.level_end_sp - skill.training_start_sp
         IN  IF skill_start < now \/ skill_start < skill_finish
             THEN IF now > skill_finish
                  THEN AggResult(FALSE, FALSE, train_points)
                  ELSE AggResult(TRUE, FALSE,
                                 TrainedSp(train_points, now - skill_start,
                                           skill_finish - skill_start))
             ELSE AggResult(FALSE, TRUE, 0)

\* mutant of CalculateQueuedSkill: an entry that started and does not end
\* after its start counts as queued, without points
CalculateDegenerateAsQueued(skill, now) ==
    IF skill.skill_id \notin CROP_SKILLS THEN AggResult(FALSE, FALSE, 0)
    ELSE IF ~skill.start_date.valid \/ ~skill.finish_date.valid THEN AggPanic
    ELSE LET skill_start  == skill.start_date.ts
             skill_finish == skill.finish_date.ts
             train_points == skill.level_end_sp - skill.training_start_sp
         IN  IF skill_start < now /\ skill_start < skill_finish
             THEN IF now > skill_finish
                  THEN AggResult(FALSE, FALSE, train_points)
                  ELSE AggResult(TRUE, FALSE,
                                 TrainedSp(train_points, now - skill_start,
                                           skill_finish - skill_start))
             ELSE AggResult(FALSE, TRUE, 0)

\* calculate_queued_skill(skill) with Utc::now().timestamp() = now: the triple
\* (training, is_crop, points), or a panic of one of the two unwraps
CalculateQueuedSkill(skill, now) ==
    IF skill.skill_id \notin CROP_SKILLS THEN AggResult(FALSE, FALSE, 0)
    ELSE IF ~skill.start_date.valid \/ ~skill.finish_date.valid THEN AggPanic
    ELSE LET skill_start  == skill.start_date.ts
             skill_finish == skill.finish_date.ts
             train_points == skill.level_end_sp - skill.training_start_sp
         IN  IF skill_start < now
             THEN IF now > skill_finish
                  THEN AggResult(FALSE, FALSE, train_points)
                  ELSE AggResult(TRUE, FALSE,
                                 TrainedSp(train_points, now - skill_start,
                                           skill_finish - skill_start))
             ELSE AggResult(FALSE, TRUE, 0)

\* the instants the clock shows in the model, and the times entries carry
Instants == {5, 6, 13}

EntryTimes == {2, 5, 13}

\* the queue entries the API answers with in the model
TrackedEntries ==
    {QueuedSkill(3412, Date(s), Date(f), sp[1], sp[2]) :
        s \in {2, 5}, f \in EntryTimes, sp \in {<<0, 55>>, <<5, 3>>}}

OtherEntries ==
    {QueuedSkill(25811, Date(2), Date(13), 0, 3),
     QueuedSkill(3412, BadDate, Date(13), 0, 3),
     QueuedSkill(3412, Date(2), BadDate, 0, 3),
     QueuedSkill(9999, Date(2), Date(13), 0, 55),
     QueuedSkill(9999, BadDate, BadDate, 0, 55)}

Entries == TrackedEntries \cup OtherEntries

(***************************************************************************)
(* The stats run: do_stats and one do_stats_single task per character.     *)
(***************************************************************************)
Feb == <<"F", "e", "b">>

March == <<"M", "a", "r", "c", "h">>

ToonNames == <<Jan, January, Feb, March>>

\* the store a stats run reads
StatsToons ==
    [n \in {ToonNames[i] : i \in 1..MaxToons} |->
        CharacterData(n, 90 + (CHOOSE i \in 1..MaxToons : ToonNames[i] = n),
                      OldToken, "skills")]

\* answers of get_skills: the skills of the character
SkillAnswers ==
    {<<>>,
     <<[skill_id |-> 3412, skillpoints_in_skill |-> 500000],
       [skill_id |-> 9999, skillpoints_in_skill |-> 7]>>}

\* answers of the skill queue request in a stats run over several characters
QueueAnswers ==
    {<<>>,
     <<QueuedSkill(3412, Date(2), Date(5), 0, 55)>>,
     <<QueuedSkill(3412, Date(2), Date(5), 5, 3)>>,
     <<QueuedSkill(3412, BadDate, Date(13), 0, 3)>>}

\* all orders of the elements of a set
Orders(S) ==
    {q \in [1..Cardinality(S) -> S] : \A x \in S : \E i \in 1..Cardinality(S) : q[i] = x}

RECURSIVE SumSkillpoints(_)
\* the loop over skills.skills: the points of the tracked skills
SumSkillpoints(skills) ==
    IF skills = <<>> THEN 0
    ELSE (IF Head(skills).skill_id \in CROP_SKILLS
          THEN Head(skills).skillpoints_in_skill ELSE 0)
         + SumSkillpoints(Tail(skills))

CropStat(name, points, training, queued) ==
    [name |-> name, points |-> points, training |-> training, queued |-> queued]

RECURSIVE InsertByKey(_, _)
\* x put behind the elements of the sorted sequence whose points are not larger
InsertByKey(sorted, x) ==
    IF sorted = <<>> THEN <<x>>
    ELSE IF Head(sorted).points <= x.points
         THEN <<Head(sorted)>> \o InsertByKey(Tail(sorted), x)
         ELSE <<x>> \o sorted

RECURSIVE SortByKey(_)
\* Vec::sort_by_key(|s| s.points): ascending and stable
SortByKey(v) ==
    IF v = <<>> THEN <<>> ELSE InsertByKey(SortByKey(Front(v)), v[Len(v)])

\* Vec::reverse
Reverse(v) == [i \in 1..Len(v) |-> v[Len(v) + 1 - i]]

\* mutant of SortedReport: the reverse is left out
SortedAscending(v) == SortByKey(v)

\* crop_stats.sort_by_key(|s| s.points); crop_stats.reverse()
SortedReport(v) == Reverse(SortByKey(v))

\* i64 division, which truncates toward zero
RustDiv(a, b) == IF a >= 0 THEN a \div b ELSE 0 - ((0 - a) \div b)

RECURSIVE SumExtracts(_)
\* the report loop: available_extracts += stat.points / 500_000
SumExtracts(v) ==
    IF v = <<>> THEN 0 ELSE RustDiv(Head(v).points, 500000) + SumExtracts(Tail(v))

Tasks == 1..Len(single)

\* do_stats_single up to its first await: a fresh CropStat, a fresh client
NewStat(name) == CropStat(name, 0, FALSE, 0)

\* do_stats with no name: one task per stored character, in the order the
\* HashMap yields them, all waiting for their token refresh
StatsInit ==
    /\ spc = "join"
    /\ clock \in Instants
    /\ single \in Orders(DOMAIN StatsToons)
    /\ tpc = [i \in Tasks |-> "refresh"]
    /\ authed = [i \in Tasks |-> FALSE]
    /\ specLoaded = [i \in Tasks |-> FALSE]
    /\ stat = [i \in Tasks |-> NewStat(StatsToons[single[i]].name)]
    /\ queue = [i \in Tasks |-> <<>>]
    /\ running = 0
    /\ queuePoints = [i \in Tasks |-> 0]
    /\ taken = [i \in Tasks |-> <<>>]
    /\ lastStep = Nothing
    /\ finished = <<>>
    /\ crop_stats = <<>>
    /\ available_extracts = 0

\* one character whose queue has arrived: the aggregation loop is about to run
AggInit ==
    /\ spc = "join"
    /\ clock \in Instants
    /\ single = <<Jan>>
    /\ tpc = [i \in Tasks |-> "agg"]
    /\ authed = [i \in Tasks |-> TRUE]
    /\ specLoaded = [i \in Tasks |-> TRUE]
    /\ stat = [i \in Tasks |-> NewStat(Jan)]
    /\ queue \in [Tasks -> UNION {[1..k -> Entries] : k \in 0..MaxQueue}]
    /\ running = 1
    /\ queuePoints = [i \in Tasks |-> 0]
    /\ taken = [i \in Tasks |-> <<>>]
    /\ lastStep = Nothing
    /\ finished = <<>>
    /\ crop_stats = <<>>
    /\ available_extracts = 0

\* the clock moves on
Tick ==
    /\ spc = "join"
    /\ \E t \in Instants : t > clock /\ clock' = t
    /\ UNCHANGED <<spc, single, tpc, authed, specLoaded, stat, queue, running,
                   queuePoints, taken, lastStep, crop_stats, available_extracts>>
    /\ UNCHANGED <<finished, exceptStats>>

\* let _ = esi.refresh_access_token(..).await: the outcome is dropped
RefreshDone(i) ==
    /\ spc = "join" /\ running = 0
    /\ tpc[i] = "refresh"
    /\ \E ok \in BOOLEAN : authed' = [authed EXCEPT ![i] = ok]
    /\ tpc' = [tpc EXCEPT ![i] = "spec"]
    /\ UNCHANGED <<spc, clock, single, specLoaded, stat, queue, running, queuePoints,
                   taken, lastStep, crop_stats, available_extracts>>
    /\ UNCHANGED <<finished, exceptStats>>

\* let _ = esi.update_spec().await: the outcome is dropped
UpdateSpecDone(i) ==
    /\ spc = "join" /\ running = 0
    /\ tpc[i] = "spec"
    /\ \E ok \in BOOLEAN : specLoaded' = [specLoaded EXCEPT ![i] = ok]
    /\ tpc' = [tpc EXCEPT ![i] = "skills"]
    /\ UNCHANGED <<spc, clock, single, authed, stat, queue, running, queuePoints,
                   taken, lastStep, crop_stats, available_extracts>>
    /\ UNCHANGED <<finished, exceptStats>>

\* get_skills answers: Ok needs the token and the spec; on Ok the points of
\* the tracked skills are summed, on Err the task returns Err
SkillsDone(i) ==
    /\ spc = "join" /\ running = 0
    /\ tpc[i] = "skills"
    /\ \/ /\ authed[i] /\ specLoaded[i]
          /\ \E skills \in SkillAnswers :
                stat' = [stat EXCEPT ![i].points = @ + SumSkillpoints(skills)]
          /\ tpc' = [tpc EXCEPT ![i] = "queue"]
          /\ UNCHANGED finished
       \/ /\ tpc' = [tpc EXCEPT ![i] = "err"]
          /\ finished' = Append(finished, i)
          /\ UNCHANGED stat
    /\ UNCHANGED <<spc, clock, single, authed, specLoaded, queue, running, queuePoints,
                   taken, lastStep, crop_stats, available_extracts>>
    /\ UNCHANGED exceptStats

\* the queue request answers: on Ok the loop over the entries starts, on Err
\* the task returns Err
QueueDone(i) ==
    /\ spc = "join" /\ running = 0
    /\ tpc[i] = "queue"
    /\ \/ /\ \E q \in QueueAnswers : queue' = [queue EXCEPT ![i] = q]
          /\ tpc' = [tpc EXCEPT ![i] = "agg"]
          /\ running' = i
          /\ UNCHANGED finished
       \/ /\ tpc' = [tpc EXCEPT ![i] = "err"]
          /\ finished' = Append(finished, i)
          /\ UNCHANGED <<queue, running>>
    /\ UNCHANGED <<spc, clock, single, authed, specLoaded, stat, queuePoints, taken,
                   lastStep, crop_stats, available_extracts>>
    /\ UNCHANGED exceptStats

\* the stat after one round of the loop with the result r
Accumulate(st, r) ==
    [st EXCEPT !.training = IF r.training THEN TRUE ELSE @,
               !.queued = IF r.is_crop THEN @ + 1 ELSE @,
               !.points = @ + r.points]

\* one round of for skill in queue: calculate_queued_skill reads the clock; a
\* panic unwinds through join_all and ends the process
AggStep(i) ==
    /\ spc = "join" /\ running = i
    /\ queue[i] # <<>>
    /\ LET skill == Head(queue[i])
           r     == CalculateQueuedSkill(skill, clock)
       IN  /\ queue' = [queue EXCEPT ![i] = Tail(@)]
           /\ taken' = [taken EXCEPT ![i] = Append(@, [skill |-> skill, now |-> clock])]
           /\ IF r.panicked
              THEN /\ spc' = "panicked"
                   /\ UNCHANGED <<stat, queuePoints, lastStep>>
              ELSE /\ spc' = spc
                   /\ stat' = [stat EXCEPT ![i] = Accumulate(@, r)]
                   /\ queuePoints' = [queuePoints EXCEPT ![i] = @ + r.points]
                   /\ lastStep' = Some([skill |-> skill, now |-> clock,
                                        before |-> stat[i],
                                        after |-> Accumulate(stat[i], r)])
    /\ UNCHANGED <<clock, single, tpc, authed, specLoaded, running, crop_stats,
                   available_extracts>>
    /\ UNCHANGED <<finished, exceptStats>>

\* the loop is through: the task returns Ok(stat)
AggDone(i) ==
    /\ spc = "join" /\ running = i
    /\ queue[i] = <<>>
    /\ tpc' = [tpc EXCEPT ![i] = "ok"]
    /\ running' = 0
    /\ finished' = Append(finished, i)
    /\ UNCHANGED <<spc, clock, single, authed, specLoaded, stat, queue, queuePoints,
                   taken, lastStep, crop_stats, available_extracts>>
    /\ UNCHANGED exceptStats

RECURSIVE CollectedAsCompleted(_, _, _)
\* mutant of Collected: the results are taken in the order the tasks returned
CollectedAsCompleted(pcs, stats, i) ==
    IF i > Len(finished) THEN <<>>
    ELSE (IF pcs[finished[i]] = "ok" THEN <<stats[finished[i]]>> ELSE <<>>)
         \o CollectedAsCompleted(pcs, stats, i + 1)

\* the results of join_all in launch order: the Ok ones are pushed
RECURSIVE Collected(_, _, _)
Collected(pcs, stats, i) ==
    IF i > Len(pcs) THEN <<>>
    ELSE (IF pcs[i] = "ok" THEN <<stats[i]>> ELSE <<>>) \o Collected(pcs, stats, i + 1)

\* join_all has all results: collect, sort, reverse, print and sum
Report ==
    /\ spc = "join"
    /\ \A i \in Tasks : tpc[i] \in {"ok", "err"}
    /\ crop_stats' = SortedReport(Collected(tpc, stat, 1))
    /\ available_extracts' = SumExtracts(crop_stats')
    /\ spc' = "done"
    /\ UNCHANGED <<clock, single, tpc, authed, specLoaded, stat, queue, running,
                   queuePoints, taken, lastStep>>
    /\ UNCHANGED <<finished, exceptStats>>

StatsNext ==
    \/ Tick
    \/ \E i \in Tasks : RefreshDone(i)
    \/ \E i \in Tasks : UpdateSpecDone(i)
    \/ \E i \in Tasks : SkillsDone(i)
    \/ \E i \in Tasks : QueueDone(i)
    \/ \E i \in Tasks : AggStep(i)
    \/ \E i \in Tasks : AggDone(i)
    \/ Report

AggNext ==
    \/ Tick
    \/ \E i \in Tasks : AggStep(i)
    \/ \E i \in Tasks : AggDone(i)
    \/ Report

(***************************************************************************)
(* The show command: do_show and find_toon.                                *)
(***************************************************************************)
\* a store with the keys ks, each record under its own name
StoreOf(ks) ==
    [k \in ks |-> CharacterData(k, 90 + Len(k), OldToken, "skills")]

\* the files do_show can find
ShowFiles == {Absent, Truncated} \cup {ToJson(StoreOf(ks)) : ks \in SUBSET {Jan, January, Feb}}

\* the names asked for
ShowNames ==
    {<<>>, <<"J">>, Jan, January, Feb, <<"F", "e", "b", "s">>, <<"j", "a", "n">>}

\* mutant of FindToon: the exact key is not looked up first
FindToonLoopOnly(m, name, order) ==
    LET hits == {i \in 1..Len(order) : StartsWith(order[i], name)}
    IN  IF hits = {} THEN Nothing
        ELSE Some(m[order[CHOOSE i \in hits : \A j \in hits : i <= j]])

\* find_toon(m, name), the for loop going over the keys in the order given
FindToon(m, name, order) ==
    IF name \in DOMAIN m THEN Some(m[name])
    ELSE LET hits == {i \in 1..Len(order) : StartsWith(order[i], name)}
         IN  IF hits = {} THEN Nothing
             ELSE Some(m[order[CHOOSE i \in hits : \A j \in hits : i <= j]])

ShowInit ==
    /\ show_pc = "read"
    /\ show_file \in ShowFiles
    /\ show_name \in ShowNames
    /\ show_toons = EmptyMap
    /\ show_found = Nothing

\* let toons = read_toons(): from_reader(..).unwrap() panics on a broken file
ShowRead ==
    /\ show_pc = "read"
    /\ IF show_file.state = "truncated"
       THEN show_pc' = "panicked" /\ UNCHANGED show_toons
       ELSE show_pc' = "find" /\ show_toons' = ReadToons(show_file)
    /\ UNCHANGED <<show_file, show_name, show_found>>
    /\ UNCHANGED exceptShow

\* match find_toon(&toons, name): the record or the message is printed
ShowFind ==
    /\ show_pc = "find"
    /\ \E order \in Orders(DOMAIN show_toons) :
          show_found' = FindToon(show_toons, show_name, order)
    /\ show_pc' = "printed"
    /\ UNCHANGED <<show_file, show_name, show_toons>>
    /\ UNCHANGED exceptShow

ShowNext ==
    \/ ShowRead
    \/ ShowFind

ShowIdle ==
    /\ show_pc = "idle"
    /\ show_file = Absent
    /\ show_name = <<>>
    /\ show_toons = EmptyMap
    /\ show_found = Nothing

\* two invocations of the auth command -------------------------------------

Invocations == {1, 2}

\* mutant of Rewritten: the members the file held are kept next to the map's
RewrittenMerged(f, m) ==
    LET old == ReadToons(f)
    IN  ToJson([k \in DOMAIN old \cup DOMAIN m |->
                   IF k \in DOMAIN m THEN m[k] ELSE old[k]])

\* write_toons over a file f: File::create truncates it, then the map alone
\* is serialized into it
Rewritten(f, m) == ToJson(m)

OverlapInit ==
    /\ inv_pc = [p \in Invocations |-> "start"]
    /\ inv_toons = [p \in Invocations |-> EmptyMap]
    /\ inv_iter = [p \in Invocations |-> 0]
    /\ inv_read = [p \in Invocations |-> {}]
    /\ inv_wrote = [p \in Invocations |-> {}]
    /\ shared_file \in InitialFiles
    /\ port = 0
    /\ last_writer = 0

\* let mut toons = read_toons(): once, before the loop; from_reader(..).unwrap()
\* panics on a file that was not completely written
InvRead(p) ==
    /\ inv_pc[p] = "start"
    /\ IF shared_file.state = "truncated"
       THEN /\ inv_pc' = [inv_pc EXCEPT ![p] = "panicked"]
            /\ UNCHANGED <<inv_toons, inv_read>>
       ELSE /\ inv_pc' = [inv_pc EXCEPT ![p] = "bind"]
            /\ inv_toons' = [inv_toons EXCEPT ![p] = ReadToons(shared_file)]
            /\ inv_read' = [inv_read EXCEPT ![p] = DOMAIN ReadToons(shared_file)]
    /\ UNCHANGED <<inv_iter, inv_wrote, shared_file, port, last_writer>>
    /\ UNCHANGED exceptOverlap

\* auth_cb: TcpListener::bind("127.0.0.1:5000").unwrap() takes the port, or
\* panics when another listener holds it
InvBind(p) ==
    /\ inv_pc[p] = "bind"
    /\ inv_iter[p] < MaxIter
    /\ IF port = 0
       THEN /\ port' = p
            /\ inv_pc' = [inv_pc EXCEPT ![p] = "listen"]
       ELSE /\ inv_pc' = [inv_pc EXCEPT ![p] = "panicked"]
            /\ UNCHANGED port
    /\ UNCHANGED <<inv_toons, inv_iter, inv_read, inv_wrote, shared_file, last_writer>>
    /\ UNCHANGED exceptOverlap

\* auth_cb serves its connection and returns: the listener is dropped, the
\* port is free; without callback parameters do_auth panics (expect)
InvCallback(p) ==
    /\ inv_pc[p] = "listen"
    /\ port' = 0
    /\ \/ inv_pc' = [inv_pc EXCEPT ![p] = "store"]
       \/ inv_pc' = [inv_pc EXCEPT ![p] = "panicked"]
    /\ UNCHANGED <<inv_toons, inv_iter, inv_read, inv_wrote, shared_file, last_writer>>
    /\ UNCHANGED exceptOverlap

\* the rest of the iteration: token exchange and verification (unwrap),
\* toons.insert, write_toons (expect)
InvStore(p) ==
    /\ inv_pc[p] = "store"
    /\ \/ /\ inv_pc' = [inv_pc EXCEPT ![p] = "panicked"]
          /\ UNCHANGED <<inv_toons, inv_iter, inv_wrote, shared_file, last_writer>>
       \/ \E verify \in Characters, token \in Tokens :
             /\ inv_toons' = [inv_toons EXCEPT
                                ![p] = InsertVerified(inv_toons[p], verify, token)]
             /\ \/ /\ shared_file' = Rewritten(shared_file, inv_toons'[p])
                   /\ last_writer' = p
                   /\ inv_wrote' = [inv_wrote EXCEPT
                                      ![p] = @ \cup {verify.character_name}]
                   /\ inv_iter' = [inv_iter EXCEPT ![p] = @ + 1]
                   /\ inv_pc' = [inv_pc EXCEPT ![p] = "bind"]
                \/ /\ shared_file' \in {shared_file, Truncated}
                   /\ inv_pc' = [inv_pc EXCEPT ![p] = "panicked"]
                   /\ UNCHANGED <<inv_iter, inv_wrote, last_writer>>
    /\ UNCHANGED <<inv_read, port>>
    /\ UNCHANGED exceptOverlap

OverlapNext ==
    \/ \E p \in Invocations : InvRead(p)
    \/ \E p \in Invocations : InvBind(p)
    \/ \E p \in Invocations : InvCallback(p)
    \/ \E p \in Invocations : InvStore(p)

OverlapIdle ==
    /\ inv_pc = <<>>
    /\ inv_toons = <<>>
    /\ inv_iter = <<>>
    /\ inv_read = <<>>
    /\ inv_wrote = <<>>
    /\ shared_file = Absent
    /\ port = 0
    /\ last_writer = 0

\* the stats variables while the auth command runs, and the other way round
StatsIdle ==
    /\ spc = "idle"
    /\ clock = 0
    /\ single = <<>>
    /\ tpc = <<>>
    /\ authed = <<>>
    /\ specLoaded = <<>>
    /\ stat = <<>>
    /\ queue = <<>>
    /\ running = 0
    /\ queuePoints = <<>>
    /\ taken = <<>>
    /\ lastStep = Nothing
    /\ finished = <<>>
    /\ crop_stats = <<>>
    /\ available_extracts = 0

AuthIdle ==
    /\ pc = "idle"
    /\ iter = 0
    /\ file = Absent
    /\ toons = EmptyMap
    /\ lastGood = Absent
    /\ failedAt = None
    /\ verified = Nothing
    /\ accepted = 0
    /\ acceptErrLogged = FALSE
    /\ readErrLogged = FALSE
    /\ peerClosed = FALSE
    /\ eofReads = 0
    /\ line = <<>>
    /\ params = Nothing
    /\ req = Nothing
    /\ sawPrefix = FALSE
    /\ responses = 0
    /\ respOk = FALSE
    /\ cbResult = Nothing
    /\ access_token = None
    /\ refresh_token = None

AuthStart == AuthInit /\ StatsIdle /\ ShowIdle /\ OverlapIdle

StatsStart == StatsInit /\ AuthIdle /\ ShowIdle /\ OverlapIdle

AggStart == AggInit /\ AuthIdle /\ ShowIdle /\ OverlapIdle

ShowStart == ShowInit /\ AuthIdle /\ StatsIdle /\ OverlapIdle

OverlapStart == OverlapInit /\ AuthIdle /\ StatsIdle /\ ShowIdle

\* the auth command
SpecAuth == AuthStart /\ [][AuthNext]_vars

\* the stats command over all stored characters
SpecStats == StatsStart /\ [][StatsNext]_vars

\* the aggregation of one character's queue
SpecAgg == AggStart /\ [][AggNext]_vars

\* the show command
SpecShow == ShowStart /\ [][ShowNext]_vars

\* two invocations of the auth command at the same time
SpecOverlap == OverlapStart /\ [][OverlapNext]_vars


(***************************************************************************)
(* Claims about the callback listener and the auth loop.                   *)
(***************************************************************************)

\* C1: a listener serves at most one connection: it never accepts a second
\* one, stream.write is called at most once, only on an accepted connection,
\* and when auth_cb has returned exactly one connection was accepted and
\* exactly one response was written to it.
Thm_C1_SingleShot ==
    /\ accepted <= 1
    /\ responses <= accepted
    /\ (pc \in {"read", "respond"} => accepted = 1 /\ responses = 0)
    /\ (pc = "returned" => accepted = 1 /\ responses = 1)

\* C1 witness: after a logged accept error a connection was accepted, its
\* read loop ended and the response was written.
Wit_C1_ServedAfterAcceptError ==
    pc = "returned" /\ acceptErrLogged /\ accepted = 1 /\ responses = 1 /\ respOk

\* the characters of s are left alone by URL decoding and delimit nothing
UrlPlain(s) == \A i \in 1..Len(s) : s[i] \notin {"%", "+", "&", "=", " "}

\* a missing callback result is fatal and the store is not touched
AbsenceIsFatal ==
    /\ (pc \in {"exchange", "verify"} => failedAt = None)
    /\ (pc = "panicked" /\ failedAt = "callback"
           => file = lastGood /\ toons = ReadToons(lastGood))

\* C2 (as stated): when auth_cb has returned after the request line for code C
\* and state S, its result is {C, S} for every C and S; without a line that
\* begins with the prefix the result is absent, which aborts the process with
\* the store untouched.
Orig_C2_CallbackResult ==
    /\ [](pc = "returned" /\ req # Nothing => cbResult = req)
    /\ [](pc = "returned" /\ ~sawPrefix => cbResult = Nothing)
    /\ [](AbsenceIsFatal)
    /\ [][pc = "returned" /\ cbResult = Nothing
             => pc' = "panicked" /\ UNCHANGED storeVars]_vars

\* C2 (amended): the result holds the URL-decoded code and state ('+' is a
\* blank, %XY the character with that code), which are C and S themselves when
\* these hold no '%' and no '+'; the rest as stated.
Thm_C2_CallbackResultDecoded ==
    /\ [](pc = "returned" /\ req # Nothing /\ UrlPlain(req[1].code)
             /\ UrlPlain(req[1].state) => cbResult = req)
    /\ [](pc = "returned" /\ req # Nothing
             => cbResult = Some([code |-> QsDecode(req[1].code),
                                 state |-> QsDecode(req[1].state)]))
    /\ [](pc = "returned" /\ ~sawPrefix => cbResult = Nothing)
    /\ [](AbsenceIsFatal)
    /\ [][pc = "returned" /\ cbResult = Nothing
             => pc' = "panicked" /\ UNCHANGED storeVars]_vars

\* C2 witness: the request line carried the code "44" and the state "XYZ" and
\* the listener returned exactly these.
Wit_C2_PlainCodeReturned ==
    /\ pc = "returned"
    /\ req = Some([code |-> <<"4", "4">>, state |-> <<"X", "Y", "Z">>])
    /\ cbResult = req

\* C3: as long as no write of the file has failed, the file is what the last
\* successful iteration wrote (or the initial content) and the map is its
\* content: a failed bind, callback, token exchange or verification leaves
\* both untouched.
Thm_C3_StoreUntouchedOnFailure ==
    failedAt # "persist" => file = lastGood /\ toons = ReadToons(lastGood)

\* C3 witness: the second iteration failed in the identity verification after
\* a first one had stored a record.
Wit_C3_VerifyFailedAfterSuccess ==
    /\ pc = "panicked"
    /\ failedAt = "verify"
    /\ iter = 1
    /\ access_token # None
    /\ file.state = "json"

\* C4: when an iteration has succeeded the file holds exactly the in-memory
\* map, and under the verified name the record with that name, its id, its
\* scopes and the refresh token of this iteration.
Thm_C4_PersistedEachIteration ==
    (pc = "bind" /\ iter > 0) =>
        /\ file.state = "json"
        /\ FromJson(file) = toons
        /\ file = ToJson(toons)
        /\ verified # Nothing
        /\ refresh_token \in Tokens
        /\ verified[1].character_name \in DOMAIN toons
        /\ toons[verified[1].character_name] =
               [name |-> verified[1].character_name,
                id |-> verified[1].character_id,
                refresh_token |-> refresh_token,
                scopes |-> verified[1].scopes]

\* C4 witness: the second successful iteration of one invocation has stored a
\* second identity beside the first.
Wit_C4_TwoIterationsPersisted ==
    /\ pc = "bind"
    /\ iter = 2
    /\ DOMAIN toons = Names
    /\ file = ToJson(toons)


(***************************************************************************)
(* Claims about the aggregation and the stats run.                         *)
(***************************************************************************)

\* the last round of the aggregation loop: its entry, its now, the points it
\* added, the queued count it added, the points of the level and the seconds
\* from start_date to now and to finish_date
StepGain == lastStep[1].after.points - lastStep[1].before.points

StepQueued == lastStep[1].after.queued - lastStep[1].before.queued

StepLevelPoints == lastStep[1].skill.level_end_sp - lastStep[1].skill.training_start_sp

StepCompleted == lastStep[1].now - lastStep[1].skill.start_date.ts

StepTotal == lastStep[1].skill.finish_date.ts - lastStep[1].skill.start_date.ts

StepTracked == lastStep[1].skill.skill_id \in CROP_SKILLS

StepStarted == lastStep[1].skill.start_date.ts < lastStep[1].now

StepFinished == lastStep[1].now > lastStep[1].skill.finish_date.ts

\* the three outcomes without a fraction
PlainOutcomes ==
    /\ ~StepTracked => lastStep[1].after = lastStep[1].before
    /\ StepTracked /\ ~StepStarted =>
           /\ StepQueued = 1 /\ StepGain = 0
           /\ lastStep[1].after.training = lastStep[1].before.training
    /\ StepTracked /\ StepStarted /\ StepFinished =>
           /\ StepGain = StepLevelPoints /\ StepQueued = 0
           /\ lastStep[1].after.training = lastStep[1].before.training

\* C5 (as stated): every round applies one of the four outcomes, the entry in
\* training adding the floor of the exact share of the level's points.
Orig_C5_FourOutcomesFloor ==
    lastStep # Nothing =>
        /\ PlainOutcomes
        /\ StepTracked /\ StepStarted /\ ~StepFinished =>
               /\ lastStep[1].after.training /\ StepQueued = 0
               /\ StepGain = (StepLevelPoints * StepCompleted) \div StepTotal

\* C5 (amended): the first three outcomes as stated; the entry in training
\* sets the flag, leaves the queued count and adds the exact share cut toward
\* zero, or, where the exact share is a whole number other than 0, possibly
\* the number one nearer to zero, which the f64 product can fall short to.
Thm_C5_FourOutcomesTruncated ==
    lastStep # Nothing =>
        /\ PlainOutcomes
        /\ StepTracked /\ StepStarted /\ ~StepFinished =>
               /\ lastStep[1].after.training /\ StepQueued = 0
               /\ LET exact == RustDiv(StepLevelPoints * StepCompleted, StepTotal)
                      whole == (StepLevelPoints * StepCompleted) % StepTotal = 0
                  IN  \/ StepGain = exact
                      \/ whole /\ exact > 0 /\ StepGain = exact - 1
                      \/ whole /\ exact < 0 /\ StepGain = exact + 1

\* C5 witness: an entry from 0 to 55 points, started at 2 and finishing at
\* 13, is looked at at 5: it is in training and adds 14 points, where the
\* exact share 55 * 3 / 11 is 15.
Wit_C5_InTrainingBelowFloor ==
    /\ lastStep # Nothing
    /\ StepTracked /\ StepStarted /\ ~StepFinished
    /\ StepLevelPoints = 55 /\ StepCompleted = 3 /\ StepTotal = 11
    /\ lastStep[1].after.training
    /\ StepGain = 14

\* C6 (as stated): when the run has ended, the report holds every identity
\* whose task returned Ok exactly once and no other, whatever happened in the
\* other tasks.
Orig_C6_FailuresIsolated ==
    spc \in {"done", "panicked"} =>
        /\ \A i \in Tasks : tpc[i] = "ok" =>
               Cardinality({k \in 1..Len(crop_stats) : crop_stats[k] = stat[i]}) = 1
        /\ \A k \in 1..Len(crop_stats) :
               \E i \in Tasks : tpc[i] = "ok" /\ crop_stats[k] = stat[i]

\* C6 witness: a run in which one task returned Err and the other Ok has
\* ended with the report holding the one that returned Ok.
Wit_C6_OneFailedOneReported ==
    /\ spc = "done"
    /\ Len(crop_stats) = 1
    /\ \E i \in Tasks : tpc[i] = "err"
    /\ \E i \in Tasks : tpc[i] = "ok" /\ crop_stats[1] = stat[i]

\* the place of x in seq
PosIn(seq, x) == CHOOSE k \in 1..Len(seq) : seq[k] = x

\* the report holds the collected results, each once, with points that never
\* rise
SortedDescending(collected, report) ==
    /\ Len(report) = Len(collected)
    /\ {report[k] : k \in 1..Len(report)} = {collected[k] : k \in 1..Len(collected)}
    /\ \A i, j \in 1..Len(report) : i < j => report[i].points >= report[j].points

\* C7 (as stated): the report is the collected results sorted by points
\* descending, results with equal points in the order they were collected in.
Orig_C7_StableDescending ==
    spc = "done" =>
        LET collected == Collected(tpc, stat, 1)
        IN  /\ SortedDescending(collected, crop_stats)
            /\ \A i, j \in 1..Len(crop_stats) :
                   i < j /\ crop_stats[i].points = crop_stats[j].points
                       => PosIn(collected, crop_stats[i]) < PosIn(collected, crop_stats[j])

\* C7 (amended): the report is the collected results sorted by points
\* descending, results with equal points in the reverse of the order they
\* were collected in.
Thm_C7_DescendingTiesReversed ==
    spc = "done" =>
        LET collected == Collected(tpc, stat, 1)
        IN  /\ SortedDescending(collected, crop_stats)
            /\ \A i, j \in 1..Len(crop_stats) :
                   i < j /\ crop_stats[i].points = crop_stats[j].points
                       => PosIn(collected, crop_stats[i]) > PosIn(collected, crop_stats[j])

\* C7 witness: two results with equal points were collected, and the report
\* holds the second one first.
Wit_C7_TieReported ==
    /\ spc = "done"
    /\ Len(crop_stats) = 2
    /\ crop_stats[1].points = crop_stats[2].points
    /\ Collected(tpc, stat, 1) = <<crop_stats[2], crop_stats[1]>>

RECURSIVE AggregateAt(_, _, _)
\* the loop over entries started from st, its k-th round reading nows[k]
AggregateAt(st, entries, nows) ==
    IF entries = <<>> THEN st
    ELSE AggregateAt(Accumulate(st, CalculateQueuedSkill(Head(entries), Head(nows))),
                     Tail(entries), Tail(nows))

\* C8 (as stated): the result of a pass is the result of the pass over the
\* same entries in any other order.
Orig_C8_OrderIrrelevant ==
    \A i \in Tasks : tpc[i] = "ok" =>
        \A p \in Orders(1..Len(taken[i])) :
            AggregateAt(NewStat(stat[i].name),
                        [k \in 1..Len(taken[i]) |-> taken[i][p[k]].skill],
                        [k \in 1..Len(taken[i]) |-> taken[i][k].now]) = stat[i]

\* C8 witness: a pass over two entries has read two different instants.
Wit_C8_ClockMovedInPass ==
    \E i \in Tasks :
        /\ tpc[i] = "ok"
        /\ Len(taken[i]) = 2
        /\ taken[i][1].now < taken[i][2].now

\* C9 (as stated): the points a pass has added from queue entries are never
\* negative, and no round takes points away.
Orig_C9_QueuePointsNeverDrop ==
    /\ \A i \in Tasks : queuePoints[i] >= 0
    /\ lastStep # Nothing => StepGain >= 0

\* C9 witness: a round over an entry that finished with training_start_sp
\* above level_end_sp.
Wit_C9_StartAboveEnd ==
    /\ lastStep # Nothing
    /\ StepTracked /\ StepStarted /\ StepFinished
    /\ StepLevelPoints < 0

\* C10: a tracked entry that started before now and whose finish_date is now
\* or earlier adds exactly level_end_sp - training_start_sp, the entry that
\* finishes in this very second included.
Thm_C10_FinishedAddsLevelPoints ==
    lastStep # Nothing /\ StepTracked /\ StepStarted /\ StepCompleted >= StepTotal
        => StepGain = StepLevelPoints

\* C10 witness: an entry from 0 to 55 points is looked at in the second it
\* finishes: the fraction branch handles it and adds 55.
Wit_C10_ExactFinish ==
    /\ lastStep # Nothing
    /\ StepTracked /\ StepStarted
    /\ StepCompleted = StepTotal
    /\ lastStep[1].after.training
    /\ StepLevelPoints = 55
    /\ StepGain = 55

\* the task that was launched for the reported result r
LaunchedAs(r) == CHOOSE i \in Tasks : stat[i] = r

RECURSIVE ExtractsFrom(_)
\* the extractions of the tasks i, i + 1, .. that returned Ok, each divided on
\* its own
ExtractsFrom(i) ==
    IF i > Len(tpc) THEN 0
    ELSE (IF tpc[i] = "ok" THEN RustDiv(stat[i].points, 500000) ELSE 0)
         + ExtractsFrom(i + 1)

\* C11: the report is fixed by the launch order and the results alone: it
\* holds the results of the tasks that returned Ok, higher points first and
\* among equal points the task launched later first, and the total is the sum
\* over these tasks, in whatever order the tasks returned.
Thm_C11_ReportIgnoresCompletionOrder ==
    spc = "done" =>
        /\ Len(crop_stats) = Cardinality({i \in Tasks : tpc[i] = "ok"})
        /\ {crop_stats[k] : k \in 1..Len(crop_stats)} = {stat[i] : i \in {j \in Tasks : tpc[j] = "ok"}}
        /\ \A a, b \in 1..Len(crop_stats) : a < b =>
               \/ crop_stats[a].points > crop_stats[b].points
               \/ /\ crop_stats[a].points = crop_stats[b].points
                  /\ LaunchedAs(crop_stats[a]) > LaunchedAs(crop_stats[b])
        /\ available_extracts = ExtractsFrom(1)

\* C11 witness: the task launched second returned first, both results have
\* equal points, and the report is through.
Wit_C11_SecondReturnedFirst ==
    /\ spc = "done"
    /\ Len(finished) >= 2 /\ finished[1] = 2 /\ finished[2] = 1
    /\ tpc[1] = "ok" /\ tpc[2] = "ok"
    /\ stat[1].points = stat[2].points
    /\ crop_stats[1] = stat[2]

RECURSIVE FloorExtracts(_)
\* the sum over the report of floor(points / 500000), each result floored on
\* its own
FloorExtracts(v) ==
    IF v = <<>> THEN 0 ELSE (Head(v).points \div 500000) + FloorExtracts(Tail(v))

\* C12 (as stated): the total printed is the sum over the reported identities
\* of floor(points / 500000); an identity whose task failed adds nothing.
Orig_C12_TotalIsSumOfFloors ==
    spc = "done" =>
        /\ available_extracts = FloorExtracts(crop_stats)
        /\ Len(crop_stats) = Cardinality({i \in Tasks : tpc[i] = "ok"})

\* C12 witness: an identity is reported with points below 0 beside one with
\* 500000 points or more.
Wit_C12_NegativePointsReported ==
    /\ spc = "done"
    /\ Len(crop_stats) = 2
    /\ crop_stats[1].points >= 500000
    /\ crop_stats[2].points < 0
    /\ available_extracts = 1


(***************************************************************************)
(* Claims about the lookup by name.                                        *)
(***************************************************************************)

\* the keys of the map read that start with the name asked for
KeysWithPrefix == {k \in DOMAIN show_toons : StartsWith(k, show_name)}

\* C13: when find_toon has returned: for a name that is a key the record of
\* that key; otherwise, if a key starts with the name, the record of a key
\* that starts with the name; nothing if and only if no key starts with the
\* name; and the map is still the one read from the file, which is as it was.
Thm_C13_FindToon ==
    show_pc = "printed" =>
        /\ show_name \in DOMAIN show_toons => show_found = Some(show_toons[show_name])
        /\ show_name \notin DOMAIN show_toons /\ KeysWithPrefix # {} =>
               \E k \in KeysWithPrefix : show_found = Some(show_toons[k])
        /\ show_found = Nothing <=> KeysWithPrefix = {}
        /\ show_toons = ReadToons(show_file)

\* C13 witness: "Jan" was asked for in a map with the key "January" and
\* without the key "Jan", and the record of "January" was returned.
Wit_C13_PrefixFallback ==
    /\ show_pc = "printed"
    /\ show_name = Jan
    /\ Jan \notin DOMAIN show_toons
    /\ January \in DOMAIN show_toons
    /\ show_found = Some(show_toons[January])


(***************************************************************************)
(* Claims about the read loop of the listener.                             *)
(***************************************************************************)

\* C14 (as stated): the read loop stops as soon as a callback line has been
\* read and parsed: the listener never stands before another read with the
\* callback parameters in hand.
Orig_C14_StopsAtCallbackLine ==
    pc = "read" => params = Nothing

\* C14 (amended): the read loop stops at the line "\r\n" and at no other: the
\* response is only written after that line, and a callback line that was
\* read and parsed leaves the listener in the loop, waiting for more input.
Thm_C14_StopsAtBlankLineOnly ==
    /\ [](pc = "respond" => line = CRLF)
    /\ [][pc = "read" /\ ~sawPrefix /\ sawPrefix' => pc' \in {"read", "panicked"}]_vars

\* C14 witness: the callback line has been read and parsed and the listener
\* stands before the next read.
Wit_C14_StillReadingAfterCallback ==
    /\ pc = "read"
    /\ params # Nothing
    /\ req # Nothing
    /\ responses = 0

\* ---------------------------------------------------------------------
\* Claims about the termination of the listener.

\* the listener under the scheduling of the process: the thread of auth_cb
\* is never suspended for good (a read at the end of the stream returns, the
\* response is written once the loop is left), and the peer is finite: it
\* closes its side unless the loop is left first
SpecAuthLive ==
    /\ AuthStart /\ [][AuthNext]_vars
    /\ WF_vars(PeerClose) /\ WF_vars(ReadEof) /\ WF_vars(Respond)

\* C15 as stated: once the listener is in the read loop of an accepted
\* connection it eventually leaves the loop, whatever the peer does, also
\* when the peer closes the stream without a blank line and when a read
\* fails.
Orig_C15_ReadLoopIsLeft ==
    (pc = "read") ~> (pc # "read")

\* the peer closed the stream without a blank line, a failed read was
\* logged, and the listener is still in the read loop with no response
\* written
Wit_C15_SpinningAtEndOfStream ==
    /\ pc = "read" /\ accepted = 1 /\ peerClosed /\ readErrLogged
    /\ line # CRLF /\ responses = 0 /\ eofReads = 1

\* ---------------------------------------------------------------------
\* Claims about the records an invocation of do_auth leaves in the file.

\* C16: within one invocation, an iteration that completes (its write
\* succeeded) leaves every name of the file in the file, leaves the record
\* of every identity other than the one it verified as it was, and stores
\* for the verified identity the record built from this iteration's
\* verification answer and refresh token (the last write wins).
Thm_C16_OtherRecordsKept ==
    [][iter' = iter + 1 =>
          LET old  == ReadToons(file)
              new  == ReadToons(file')
              who  == verified'[1]
          IN  /\ file'.state = "json"
              /\ DOMAIN old \subseteq DOMAIN new
              /\ DOMAIN new = DOMAIN old \cup {who.character_name}
              /\ \A k \in DOMAIN old \ {who.character_name} : new[k] = old[k]
              /\ new[who.character_name] =
                    CharacterData(who.character_name, who.character_id,
                                  refresh_token, who.scopes)]_vars

\* two iterations completed: the first verified January and stored "r1" for
\* it, the second verified Jan and stored "r2" for it; January's record is
\* still the one the first iteration wrote
Wit_C16_SecondIterationKeptFirst ==
    /\ iter = 2 /\ file.state = "json"
    /\ verified # Nothing /\ verified[1].character_name = Jan
    /\ DOMAIN ReadToons(file) = {Jan, January}
    /\ ReadToons(file)[January].refresh_token = "r1"
    /\ ReadToons(file)[Jan].refresh_token = "r2"

\* ---------------------------------------------------------------------
\* Claims about invocations of the auth command that overlap.

\* C17: the file is read once per invocation and rewritten wholesale, without
\* a lock: at most one invocation listens on the callback port at a time, and
\* a completely written file is exactly the map of the invocation that wrote
\* last (as long as that invocation runs), that is the names this invocation read at its start and the names it
\* persisted itself and nothing the other invocation persisted since; there
\* is an interleaving in which a record one invocation persisted is gone after
\* a later write of the other (the state of Wit_C17_LostUpdate).
Thm_C17_LastWriterOverwrites ==
    /\ Cardinality({p \in Invocations : inv_pc[p] = "listen"}) <= 1
    /\ \A p \in Invocations : inv_pc[p] = "listen" <=> port = p
    /\ (last_writer # 0 /\ shared_file.state = "json") =>
          /\ inv_pc[last_writer] # "panicked" =>
                shared_file = ToJson(inv_toons[last_writer])
          /\ DOMAIN ReadToons(shared_file) =
                inv_read[last_writer] \cup inv_wrote[last_writer]

\* one invocation persisted a record, the other invocation wrote the file
\* later, and the record is no longer in the file
Wit_C17_LostUpdate ==
    \E p \in Invocations, q \in Invocations, n \in Names :
        /\ p # q
        /\ n \in inv_wrote[p]
        /\ last_writer = q
        /\ shared_file.state = "json"
        /\ n \notin DOMAIN ReadToons(shared_file)

\* ---------------------------------------------------------------------
\* Claims about the progress fraction of the entry in training.

\* the round took the branch that computes the fraction
StepInTraining ==
    CalculateQueuedSkill(lastStep[1].skill, lastStep[1].now).training

\* the round is the first of its pass that found its entry in training; the
\* first round of a pass starts from a record that is not in training, so
\* every entry at every instant is looked at in such a round
StepSetTraining ==
    lastStep[1].after.training /\ ~lastStep[1].before.training

\* pct = completed / total as the f64 the code computes
StepPct == F64Div(StepCompleted, StepTotal)

\* comparisons of a quotient of F64Div with 0.0 and 1.0
F64IsZero(x) == \A k \in 1..Len(x.bits) : x.bits[k] = 0

F64IsOne(x) ==
    /\ x.exp = Len(x.bits) - 1
    /\ {k \in 1..Len(x.bits) : x.bits[k] = 1} = {1}

F64BelowOne(x) == x.exp >= Len(x.bits)

\* C18 (as stated): whenever the branch of the entry in training is taken,
\* the fraction completed / total is at least 0 and below 1.
Orig_C18_FractionBelowOne ==
    lastStep # Nothing /\ StepSetTraining =>
        /\ StepTotal > 0
        /\ 0 <= StepCompleted /\ StepCompleted < StepTotal
        /\ F64BelowOne(StepPct)

\* C18 (corrected): whenever the branch of the entry in training is taken,
\* start < now <= finish, so the fraction completed / total is above 0 and at
\* most 1, as an exact quotient and as the f64 the code computes; it is 1
\* exactly when the entry is looked at in the second it finishes.
Thm_C18_FractionAboveZeroAtMostOne ==
    lastStep # Nothing /\ StepSetTraining =>
        /\ StepStarted /\ ~StepFinished
        /\ StepTotal > 0
        /\ 0 < StepCompleted /\ StepCompleted <= StepTotal
        /\ LET pct == StepPct
           IN  /\ ~F64IsZero(pct)
               /\ F64BelowOne(pct) \/ F64IsOne(pct)
               /\ F64IsOne(pct) <=>
                     lastStep[1].now = lastStep[1].skill.finish_date.ts

\* C18 witness: an entry started at 2 and finishing at 5 is looked at at 5:
\* the fraction branch is taken and the fraction is 3 / 3 = 1.0
Wit_C18_FractionIsOne ==
    /\ lastStep # Nothing /\ StepSetTraining /\ StepInTraining
    /\ StepCompleted = 3 /\ StepTotal = 3
    /\ F64IsOne(StepPct)

\* the round looked at a tracked entry that had started and whose finish is
\* not after its start
StepDegenerate ==
    /\ lastStep # Nothing
    /\ StepTracked /\ StepStarted
    /\ StepTotal <= 0

\* C19 (as stated): the aggregation does not guard durations that are zero or
\* negative: a tracked entry with finish = start or finish < start that has
\* started reaches the fraction computation, with the denominator
\* finish - start zero or negative.
Orig_C19_DegenerateReachesFraction ==
    StepDegenerate => StepInTraining

\* C19 (corrected): the fraction is never computed with a zero or negative
\* denominator. The fraction branch needs start < now and now <= finish, so
\* finish - start is at least 1 there; a tracked entry with finish <= start
\* is finished as soon as it has started (its level points are added in
\* full, without a fraction, and the record is not put in training), and
\* counts as queued before that.
Thm_C19_DenominatorPositive ==
    /\ lastStep # Nothing /\ StepSetTraining => StepTotal >= 1
    /\ StepDegenerate =>
          /\ ~StepSetTraining /\ ~StepInTraining /\ StepFinished
          /\ StepGain = StepLevelPoints /\ StepQueued = 0
    /\ lastStep # Nothing /\ StepTracked /\ ~StepStarted /\ StepTotal <= 0 =>
          /\ ~StepSetTraining /\ ~StepInTraining
          /\ StepGain = 0 /\ StepQueued = 1

\* C19 witness: a tracked entry with start = finish = 5 is looked at after 5:
\* it takes the branch of the finished entry and adds its 55 points
Wit_C19_ZeroDurationFinished ==
    /\ StepDegenerate
    /\ StepTotal = 0
    /\ ~StepInTraining
    /\ StepLevelPoints = 55 /\ StepGain = 55

====
